---------------------------- MODULE Spec2Model ----------------------------
(***************************************************************************)
(* A model of the ClickHouse <-> flat file integrator backend: the         *)
(* ingestion pipeline of ingestion.py driven by run_ingestion of app.py,   *)
(* the database adapter of clickhouse_client.py, the CSV adapter of        *)
(* file_handler.py and the identifier validators of utils.py.              *)
(*                                                                         *)
(* Python strings are modelled as sequences of one-character strings, so   *)
(* that regular expressions, substring tests, case folding and the number  *)
(* and date parsers are computed character by character.                   *)
(***************************************************************************)
EXTENDS Integers, Sequences, FiniteSets, TLC

(***************************************************************************)
(* Characters and elementary string operations                             *)
(***************************************************************************)
LowerChars == <<"a", "b", "c", "d", "e", "f", "g", "h", "i", "j", "k", "l", "m", "n", "o", "p", "q", "r", "s", "t", "u", "v", "w", "x", "y", "z">>

UpperChars == <<"A", "B", "C", "D", "E", "F", "G", "H", "I", "J", "K", "L", "M", "N", "O", "P", "Q", "R", "S", "T", "U", "V", "W", "X", "Y", "Z">>

DigitChars == <<"0", "1", "2", "3", "4", "5", "6", "7", "8", "9">>

Whitespace == {" ", "\t", "\n", "\r"}

Range(s) == { s[i] : i \in 1..Len(s) }

IndexOf(seq, c) == CHOOSE i \in 1..Len(seq) : seq[i] = c

IsLower(c) == c \in Range(LowerChars)

IsUpper(c) == c \in Range(UpperChars)

IsDigit(c) == c \in Range(DigitChars)

DigitVal(c) == IndexOf(DigitChars, c) - 1

\* str.lower() and str.upper() on the ASCII letters
LowerChar(c) == IF IsUpper(c) THEN LowerChars[IndexOf(UpperChars, c)] ELSE c

UpperChar(c) == IF IsLower(c) THEN UpperChars[IndexOf(LowerChars, c)] ELSE c

Lower(s) == [i \in 1..Len(s) |-> LowerChar(s[i])]

Upper(s) == [i \in 1..Len(s) |-> UpperChar(s[i])]

StartsWith(s, p) == Len(p) <= Len(s) /\ SubSeq(s, 1, Len(p)) = p

EndsWith(s, p) == Len(p) <= Len(s) /\ SubSeq(s, Len(s) - Len(p) + 1, Len(s)) = p

\* the Python test  p in s  on strings
Contains(s, p) == \E i \in 0..(Len(s) - Len(p)) : SubSeq(s, i + 1, i + Len(p)) = p

\* str.strip(): leading and trailing whitespace removed
RECURSIVE LStrip(_)
LStrip(s) == IF s # <<>> /\ Head(s) \in Whitespace THEN LStrip(Tail(s)) ELSE s

RECURSIVE RStrip(_)
RStrip(s) ==
    IF s # <<>> /\ s[Len(s)] \in Whitespace THEN RStrip(SubSeq(s, 1, Len(s) - 1)) ELSE s

Strip(s) == RStrip(LStrip(s))


(***************************************************************************)
(* String literals of the source                                          *)
(***************************************************************************)
S_ontime == <<"o", "n", "t", "i", "m", "e">>

S_uk_price_paid == <<"u", "k", "_", "p", "r", "i", "c", "e", "_", "p", "a", "i", "d">>

S_FlightDate == <<"F", "l", "i", "g", "h", "t", "D", "a", "t", "e">>

S_price == <<"p", "r", "i", "c", "e">>

S_date == <<"d", "a", "t", "e">>

S_type == <<"t", "y", "p", "e">>

S_is_new == <<"i", "s", "_", "n", "e", "w">>

S_duration == <<"d", "u", "r", "a", "t", "i", "o", "n">>

S_postcode1 == <<"p", "o", "s", "t", "c", "o", "d", "e", "1">>

S_postcode2 == <<"p", "o", "s", "t", "c", "o", "d", "e", "2">>

S_inf == <<"i", "n", "f">>

S_infinity == <<"i", "n", "f", "i", "n", "i", "t", "y">>

S_nan == <<"n", "a", "n">>

S_None == <<"N", "o", "n", "e">>

OntimeIntColumns ==
    { <<"Y", "e", "a", "r">>,
    <<"Q", "u", "a", "r", "t", "e", "r">>,
    <<"M", "o", "n", "t", "h">>,
    <<"D", "a", "y", "o", "f", "M", "o", "n", "t", "h">>,
    <<"D", "a", "y", "O", "f", "W", "e", "e", "k">> }

OntimeFloatColumns ==
    { <<"D", "e", "p", "D", "e", "l", "a", "y">>,
    <<"A", "r", "r", "D", "e", "l", "a", "y">>,
    <<"C", "a", "n", "c", "e", "l", "l", "e", "d">>,
    <<"D", "i", "v", "e", "r", "t", "e", "d">> }

OntimeNumericColumns ==
    { <<"Y", "e", "a", "r">>,
    <<"Q", "u", "a", "r", "t", "e", "r">>,
    <<"M", "o", "n", "t", "h">>,
    <<"D", "a", "y", "o", "f", "M", "o", "n", "t", "h">>,
    <<"D", "a", "y", "O", "f", "W", "e", "e", "k">>,
    <<"D", "O", "T", "_", "I", "D", "_", "R", "e", "p", "o", "r", "t", "i", "n", "g", "_", "A", "i", "r", "l", "i", "n", "e">>,
    <<"O", "r", "i", "g", "i", "n", "A", "i", "r", "p", "o", "r", "t", "I", "D">>,
    <<"O", "r", "i", "g", "i", "n", "A", "i", "r", "p", "o", "r", "t", "S", "e", "q", "I", "D">>,
    <<"O", "r", "i", "g", "i", "n", "C", "i", "t", "y", "M", "a", "r", "k", "e", "t", "I", "D">>,
    <<"O", "r", "i", "g", "i", "n", "W", "a", "c">>,
    <<"D", "e", "s", "t", "A", "i", "r", "p", "o", "r", "t", "I", "D">>,
    <<"D", "e", "s", "t", "A", "i", "r", "p", "o", "r", "t", "S", "e", "q", "I", "D">>,
    <<"D", "e", "s", "t", "C", "i", "t", "y", "M", "a", "r", "k", "e", "t", "I", "D">>,
    <<"D", "e", "s", "t", "W", "a", "c">>,
    <<"C", "R", "S", "D", "e", "p", "T", "i", "m", "e">>,
    <<"D", "e", "p", "T", "i", "m", "e">>,
    <<"D", "e", "p", "D", "e", "l", "a", "y">>,
    <<"D", "e", "p", "D", "e", "l", "a", "y", "M", "i", "n", "u", "t", "e", "s">>,
    <<"D", "e", "p", "D", "e", "l", "1", "5">>,
    <<"T", "a", "x", "i", "I", "n">>,
    <<"T", "a", "x", "i", "O", "u", "t">>,
    <<"C", "R", "S", "A", "r", "r", "T", "i", "m", "e">>,
    <<"A", "r", "r", "T", "i", "m", "e">>,
    <<"A", "r", "r", "D", "e", "l", "a", "y">>,
    <<"A", "r", "r", "D", "e", "l", "a", "y", "M", "i", "n", "u", "t", "e", "s">>,
    <<"A", "r", "r", "D", "e", "l", "1", "5">>,
    <<"C", "a", "n", "c", "e", "l", "l", "e", "d">>,
    <<"D", "i", "v", "e", "r", "t", "e", "d">>,
    <<"C", "R", "S", "E", "l", "a", "p", "s", "e", "d", "T", "i", "m", "e">>,
    <<"A", "c", "t", "u", "a", "l", "E", "l", "a", "p", "s", "e", "d", "T", "i", "m", "e">>,
    <<"A", "i", "r", "T", "i", "m", "e">>,
    <<"F", "l", "i", "g", "h", "t", "s">>,
    <<"D", "i", "s", "t", "a", "n", "c", "e">>,
    <<"D", "i", "s", "t", "a", "n", "c", "e", "G", "r", "o", "u", "p">> }

NumericHintPrefixes ==
    { <<"i", "d">>,
    <<"c", "o", "u", "n", "t">>,
    <<"n", "u", "m">>,
    <<"a", "m", "o", "u", "n", "t">>,
    <<"p", "r", "i", "c", "e">>,
    <<"t", "o", "t", "a", "l">>,
    <<"s", "u", "m">>,
    <<"q", "t", "y">>,
    <<"q", "u", "a", "n", "t", "i", "t", "y">> }

TruthyTokens == { <<"y", "e", "s">>,
    <<"t", "r", "u", "e">>,
    <<"1">>,
    <<"y">> }

FalsyTokens == { <<"n", "o">>,
    <<"f", "a", "l", "s", "e">>,
    <<"0">>,
    <<"n">> }
S_terraced == <<"t", "e", "r", "r", "a", "c", "e", "d">>

S_semi_detached == <<"s", "e", "m", "i", "-", "d", "e", "t", "a", "c", "h", "e", "d">>

S_detached == <<"d", "e", "t", "a", "c", "h", "e", "d">>

S_flat == <<"f", "l", "a", "t">>

S_other == <<"o", "t", "h", "e", "r">>

S_freehold == <<"f", "r", "e", "e", "h", "o", "l", "d">>

S_leasehold == <<"l", "e", "a", "s", "e", "h", "o", "l", "d">>

S_unknown == <<"u", "n", "k", "n", "o", "w", "n">>

(***************************************************************************)
(* Python values: a cell is a string (from the CSV reader), None (the      *)
(* DictReader's fill value of a short record), an integer or a date        *)
(* (results of the coercion, values of the database driver).  "bigint" is  *)
(* an integer whose magnitude is beyond the integers this model computes   *)
(* with (10 digits or more).                                               *)
(***************************************************************************)
StrV(s) == [t |-> "str", s |-> s, n |-> 0]

IntV(n) == [t |-> "int", s |-> <<>>, n |-> n]

NoneV == [t |-> "none", s |-> <<>>, n |-> 0]

BigIntV == [t |-> "bigint", s |-> <<>>, n |-> 0]

DateV(y, m, d) == [t |-> "date", s |-> <<>>, n |-> y * 10000 + m * 100 + d]

EmptyStr == StrV(<<>>)

IsStr(v) == v.t = "str"

\* Python truthiness: bool(value)
Truthy(v) ==
    CASE v.t = "str" -> v.s # <<>>
      [] v.t = "int" -> v.n # 0
      [] v.t = "none" -> FALSE
      [] OTHER -> TRUE

\* The outcome of an expression: a value, or a raised exception
Ok(v) == [exc |-> "", v |-> v]

Raise(kind) == [exc |-> kind, v |-> NoneV]

(***************************************************************************)
(* int(str) and float(str) of Python                                       *)
(***************************************************************************)
\* a run of decimal digits, single underscores allowed between digits
DigitsOK(s) ==
    /\ s # <<>>
    /\ \A i \in 1..Len(s) :
          \/ IsDigit(s[i])
          \/ /\ s[i] = "_"
             /\ i > 1
             /\ i < Len(s)
             /\ IsDigit(s[i - 1])
             /\ IsDigit(s[i + 1])

\* the element of a singleton; {F(x) : x \in {e}} computes e once for F
Only(S) == CHOOSE x \in S : TRUE

OnlyDigits(s) == SelectSeq(s, IsDigit)

RECURSIVE DigitsVal(_)
DigitsVal(s) ==
    IF s = <<>> THEN 0
    ELSE DigitsVal(SubSeq(s, 1, Len(s) - 1)) * 10 + DigitVal(s[Len(s)])

RECURSIVE DropZeros(_)
DropZeros(s) == IF s # <<>> /\ Head(s) = "0" THEN DropZeros(Tail(s)) ELSE s

RECURSIVE Pow10(_)
Pow10(k) == IF k = 0 THEN 1 ELSE 10 * Pow10(k - 1)

HasSign(s) == s # <<>> /\ s[1] \in {"+", "-"}

Unsigned(s) == IF HasSign(s) THEN Tail(s) ELSE s

SignOf(s) == IF s # <<>> /\ s[1] = "-" THEN -1 ELSE 1

\* the largest number of digits of an integer the model computes with
MaxIntDigits == 9

IntOfBody(sign, body) ==
    IF ~DigitsOK(body) THEN Raise("ValueError")
    ELSE IF Len(DropZeros(OnlyDigits(body))) > MaxIntDigits THEN Ok(BigIntV)
    ELSE Ok(IntV(sign * DigitsVal(DropZeros(OnlyDigits(body)))))

\* int(s) for a string s: surrounding whitespace and a sign are allowed
IntOfStr(s) == IntOfBody(SignOf(Strip(s)), Unsigned(Strip(s)))

\* position of the first exponent marker of s, 0 when there is none
ExpPos(s) ==
    IF \E i \in 1..Len(s) : s[i] \in {"e", "E"}
    THEN CHOOSE i \in 1..Len(s) :
            s[i] \in {"e", "E"} /\ \A j \in 1..(i - 1) : s[j] \notin {"e", "E"}
    ELSE 0

DotPos(s) ==
    IF \E i \in 1..Len(s) : s[i] = "."
    THEN CHOOSE i \in 1..Len(s) : s[i] = "." /\ \A j \in 1..(i - 1) : s[j] # "."
    ELSE 0

\* the text before and after position p (the whole text before, when p = 0)
Before(s, p) == IF p = 0 THEN s ELSE SubSeq(s, 1, p - 1)

After(s, p) == IF p = 0 THEN <<>> ELSE SubSeq(s, p + 1, Len(s))

(***************************************************************************)
(* float(s) for a string s: [exc, kind, trunc, big], kind one of "fin",    *)
(* "inf", "nan"; trunc is the value truncated toward zero and big says     *)
(* that the truncated value has more than MaxIntDigits digits.  The        *)
(* decimal value is exact for mantissas of at most 15 significant digits;  *)
(* the largest finite double is 1.7976931348623157e308 (309 digits).       *)
(***************************************************************************)
FloatFin(n, big) == [exc |-> "", kind |-> "fin", trunc |-> n, big |-> big]

FloatInf == [exc |-> "", kind |-> "inf", trunc |-> 0, big |-> FALSE]

FloatNaN == [exc |-> "", kind |-> "nan", trunc |-> 0, big |-> FALSE]

FloatError == [exc |-> "ValueError", kind |-> "fin", trunc |-> 0, big |-> FALSE]

\* sig: the significant digits; idigits: the digits of the integer part
FloatMagnitude(sign, sig, scale, idigits) ==
    IF sig = <<>> THEN FloatFin(0, FALSE)
    ELSE IF idigits > 309 THEN FloatInf
    ELSE IF idigits = 309 /\ DigitsVal(SubSeq(sig \o <<"0">>, 1, 2)) >= 18 THEN FloatInf
    ELSE IF idigits <= 0 THEN FloatFin(0, FALSE)
    ELSE IF idigits > MaxIntDigits THEN FloatFin(0, TRUE)
    ELSE IF scale >= 0 THEN FloatFin(sign * DigitsVal(sig) * Pow10(scale), FALSE)
    ELSE FloatFin(sign * DigitsVal(SubSeq(sig, 1, idigits)), FALSE)

\* an exponent of more than 4 digits is far beyond the range of a double
FloatValue(sign, sig, nfrac, expSign, expDigits) ==
    IF Len(expDigits) > 4
    THEN (IF sig = <<>> \/ expSign = -1 THEN FloatFin(0, FALSE) ELSE FloatInf)
    ELSE FloatMagnitude(sign, sig, expSign * DigitsVal(expDigits) - nfrac,
                        Len(sig) + expSign * DigitsVal(expDigits) - nfrac)

\* digits [. digits] [e [sign] digits], a digit at least in the mantissa
FloatOfDigits(sign, ipart, fpart, hasExp, expo) ==
    IF /\ ipart = <<>> \/ DigitsOK(ipart)
       /\ fpart = <<>> \/ DigitsOK(fpart)
       /\ ipart # <<>> \/ fpart # <<>>
       /\ ~hasExp \/ DigitsOK(Unsigned(expo))
    THEN FloatValue(sign, DropZeros(OnlyDigits(ipart) \o OnlyDigits(fpart)),
                    Len(OnlyDigits(fpart)), SignOf(expo),
                    DropZeros(OnlyDigits(Unsigned(expo))))
    ELSE FloatError

FloatOfMantissa(sign, mant, hasExp, expo) ==
    FloatOfDigits(sign, Before(mant, DotPos(mant)), After(mant, DotPos(mant)),
                  hasExp, expo)

FloatOfBody(sign, body) ==
    IF Lower(body) \in {S_inf, S_infinity} THEN FloatInf
    ELSE IF Lower(body) = S_nan THEN FloatNaN
    ELSE Only({FloatOfMantissa(sign, Before(body, p), p # 0, After(body, p)) :
                  p \in {ExpPos(body)}})

FloatOfStr(s) == Only({FloatOfBody(SignOf(t), Unsigned(t)) : t \in {Strip(s)}})

\* int(value)
PyInt(v) ==
    CASE v.t = "str" -> IntOfStr(v.s)
      [] v.t \in {"int", "bigint"} -> Ok(v)
      [] OTHER -> Raise("TypeError")

\* int(f) of a float f
IntOfFloatValue(f) ==
    IF f.exc # "" THEN Raise(f.exc)
    ELSE IF f.kind = "nan" THEN Raise("ValueError")
    ELSE IF f.kind = "inf" THEN Raise("OverflowError")
    ELSE IF f.big THEN Ok(BigIntV)
    ELSE Ok(IntV(f.trunc))

\* int(f), f computed once
IntOfFloat(f) == Only({IntOfFloatValue(x) : x \in {f}})

\* int(float(value)): float() of a string or a number, then int() of the float
PyIntOfFloat(v) ==
    CASE v.t = "str" -> IntOfFloat(FloatOfStr(v.s))
      [] v.t \in {"int", "bigint"} -> Ok(v)
      [] OTHER -> Raise("TypeError")

(***************************************************************************)
(* datetime.datetime.strptime(s, fmt).date() for the three formats of the  *)
(* source.  A format is [sep, order]: three numeric fields and a literal   *)
(* separator.  The directives match %Y: \d\d\d\d, %m: 1[0-2]|0[1-9]|[1-9], *)
(* %d: 3[01]|[12]\d|0[1-9]|[1-9]| [1-9]; the whole string must be          *)
(* consumed and the fields must name a day of the calendar.                *)
(***************************************************************************)
FmtYmdDash == [sep |-> "-", order |-> <<"Y", "m", "d">>]

FmtDmySlash == [sep |-> "/", order |-> <<"d", "m", "Y">>]

FmtYmdSlash == [sep |-> "/", order |-> <<"Y", "m", "d">>]

\* for fmt in ['%Y-%m-%d', '%d/%m/%Y', '%Y/%m/%d']
DateFormats == <<FmtYmdDash, FmtDmySlash, FmtYmdSlash>>

RECURSIVE Split(_, _)
Split(s, sep) ==
    IF \E i \in 1..Len(s) : s[i] = sep
    THEN LET i == CHOOSE k \in 1..Len(s) : s[k] = sep /\ \A j \in 1..(k - 1) : s[j] # sep
         IN  <<SubSeq(s, 1, i - 1)>> \o Split(SubSeq(s, i + 1, Len(s)), sep)
    ELSE <<s>>

FieldOK(f, p) ==
    CASE f = "Y" -> Len(p) = 4 /\ \A i \in 1..4 : IsDigit(p[i])
      [] f = "m" ->
            \/ Len(p) = 2 /\ p[1] = "1" /\ p[2] \in {"0", "1", "2"}
            \/ Len(p) = 2 /\ p[1] = "0" /\ IsDigit(p[2]) /\ p[2] # "0"
            \/ Len(p) = 1 /\ IsDigit(p[1]) /\ p[1] # "0"
      [] f = "d" ->
            \/ Len(p) = 2 /\ p[1] = "3" /\ p[2] \in {"0", "1"}
            \/ Len(p) = 2 /\ p[1] \in {"1", "2"} /\ IsDigit(p[2])
            \/ Len(p) = 2 /\ p[1] = "0" /\ IsDigit(p[2]) /\ p[2] # "0"
            \/ Len(p) = 1 /\ IsDigit(p[1]) /\ p[1] # "0"
            \/ Len(p) = 2 /\ p[1] = " " /\ IsDigit(p[2]) /\ p[2] # "0"

IsLeap(y) == (y % 4 = 0 /\ y % 100 # 0) \/ y % 400 = 0

DaysInMonth(y, m) ==
    IF m = 2 THEN (IF IsLeap(y) THEN 29 ELSE 28)
    ELSE IF m \in {4, 6, 9, 11} THEN 30 ELSE 31

FieldVal(parts, order, f) ==
    DigitsVal(OnlyDigits(parts[CHOOSE i \in 1..3 : order[i] = f]))

\* datetime.date(y, m, d): ValueError for a day that is not of the calendar
DateOf(y, m, d) ==
    IF y < 1 \/ d > DaysInMonth(y, m) THEN Raise("ValueError") ELSE Ok(DateV(y, m, d))

StrptimeParts(parts, order) ==
    IF Len(parts) # 3 \/ \E i \in 1..3 : ~FieldOK(order[i], parts[i])
    THEN Raise("ValueError")
    ELSE DateOf(FieldVal(parts, order, "Y"), FieldVal(parts, order, "m"),
                FieldVal(parts, order, "d"))

Strptime(s, fmt) == StrptimeParts(Split(s, fmt.sep), fmt.order)

\* the cascade of process_uk_price_paid_row and process_generic_row: the first
\* format that parses wins, and the value is left as it is when none does
FirstOk(r, otherwise) == IF r.exc = "" THEN r.v ELSE otherwise

RECURSIVE DateCascade(_, _)
DateCascade(v, k) ==
    IF k > Len(DateFormats) THEN v
    ELSE FirstOk(Strptime(v.s, DateFormats[k]), DateCascade(v, k + 1))

(***************************************************************************)
(* The row type coercer of ingestion.py.  Each Coerce... operator is the   *)
(* body of the per-column loop: [exc, v], exc naming an exception the      *)
(* handlers of that branch do not catch.                                   *)
(***************************************************************************)
\* try: ... except (ValueError, TypeError): <default>
CatchValueType(r, default) ==
    Only({IF x.exc \in {"ValueError", "TypeError"} THEN Ok(default) ELSE x : x \in {r}})

\* try: ... except ValueError: pass
CatchValue(r, unchanged) == IF r.exc = "ValueError" THEN Ok(unchanged) ELSE r

CoerceOntime(col, value) ==
    IF col = S_FlightDate /\ Truthy(value)
    THEN IF IsStr(value)
         THEN CatchValue(Strptime(value.s, FmtYmdDash), value)
         ELSE Ok(value)
    ELSE IF col \in OntimeNumericColumns
    THEN CatchValueType(
            IF value = EmptyStr THEN Ok(IntV(0))
            ELSE IF col \in OntimeIntColumns THEN PyInt(value)
            ELSE IF col \in OntimeFloatColumns THEN PyIntOfFloat(value)
            ELSE PyInt(value),
            IntV(0))
    ELSE Ok(value)

\* type_map.get(value.lower() if isinstance(value, str) else '', 0)
TypeMap(key) ==
    CASE key = S_terraced -> 1
      [] key = S_semi_detached -> 2
      [] key = S_detached -> 3
      [] key = S_flat -> 4
      [] key = S_other -> 0
      [] OTHER -> 0

DurationMap(key) ==
    CASE key = S_freehold -> 1
      [] key = S_leasehold -> 2
      [] key = S_unknown -> 0
      [] OTHER -> 0

RECURSIVE NatToStr(_)
NatToStr(n) ==
    IF n < 10 THEN <<DigitChars[n + 1]>>
    ELSE NatToStr(n \div 10) \o <<DigitChars[(n % 10) + 1]>>

\* str(value) of a value that is not a string
PyStr(v) ==
    CASE v.t = "none" -> S_None
      [] v.t = "int" -> IF v.n < 0 THEN <<"-">> \o NatToStr(-v.n) ELSE NatToStr(v.n)
      [] OTHER -> v.s

CoerceUkPricePaid(col, value) ==
    IF col = S_price
    THEN CatchValueType(IF Truthy(value) THEN PyIntOfFloat(value) ELSE Ok(IntV(0)),
                        IntV(0))
    ELSE IF col = S_date
    THEN IF IsStr(value) THEN Ok(DateCascade(value, 1)) ELSE Ok(value)
    ELSE IF col = S_type
    THEN Ok(IntV(TypeMap(IF IsStr(value) THEN Lower(value.s) ELSE <<>>)))
    ELSE IF col = S_is_new
    THEN IF IsStr(value)
         THEN IF Lower(value.s) \in TruthyTokens THEN Ok(IntV(1))
              ELSE IF Lower(value.s) \in FalsyTokens THEN Ok(IntV(0))
              ELSE Ok(IntV(IF Truthy(value) THEN 1 ELSE 0))
         ELSE Ok(IntV(IF Truthy(value) THEN 1 ELSE 0))
    ELSE IF col = S_duration
    THEN Ok(IntV(DurationMap(IF IsStr(value) THEN Lower(value.s) ELSE <<>>)))
    ELSE IF col \in {S_postcode1, S_postcode2}
    THEN IF IsStr(value) THEN Ok(StrV(Strip(Upper(value.s))))
         ELSE Ok(StrV(PyStr(value)))
    ELSE Ok(value)

\* re.match(r'^(id|count|num|amount|price|total|sum|qty|quantity).*$', s):
\* '.' matches no line break and '$' matches at the end or before a final one
DotStarDollar(rest) ==
    \A i \in 1..Len(rest) : rest[i] = "\n" => i = Len(rest)

NumericHint(s) ==
    \E p \in NumericHintPrefixes :
        StartsWith(s, p) /\ DotStarDollar(SubSeq(s, Len(p) + 1, Len(s)))

CoerceGeneric(col, value) ==
    IF EndsWith(Lower(col), S_date)
    THEN IF IsStr(value) /\ Truthy(value) THEN Ok(DateCascade(value, 1)) ELSE Ok(value)
    ELSE IF NumericHint(Lower(col))
    THEN CatchValueType(
            IF value = EmptyStr THEN Ok(IntV(0)) ELSE PyIntOfFloat(value),
            value)
    ELSE Ok(value)

\* the per-column loop of a process_..._row, given the outcome of each cell:
\* the coerced row, or the first exception a cell raises
RowOf(cells) ==
    IF \E i \in 1..Len(cells) : cells[i].exc # ""
    THEN [exc |-> cells[CHOOSE i \in 1..Len(cells) :
                          cells[i].exc # "" /\ \A j \in 1..(i - 1) : cells[j].exc = ""].exc,
          v |-> <<>>]
    ELSE Ok([i \in 1..Len(cells) |-> cells[i].v])

\* the outcome of the loop, the cells computed once
RowResult(cells) == Only({RowOf(c) : c \in {cells \o <<>>}})

process_ontime_row(row, columns) ==
    RowResult([i \in 1..Len(columns) |->
        IF i > Len(row) THEN Raise("IndexError") ELSE CoerceOntime(columns[i], row[i])])

process_uk_price_paid_row(row, columns) ==
    RowResult([i \in 1..Len(columns) |->
        IF i > Len(row) THEN Raise("IndexError")
        ELSE CoerceUkPricePaid(columns[i], row[i])])

process_generic_row(row, columns) ==
    RowResult([i \in 1..Len(columns) |->
        IF i > Len(row) THEN Raise("IndexError") ELSE CoerceGeneric(columns[i], row[i])])

(***************************************************************************)
(* Identifier validation: re.match(r'^[a-zA-Z0-9_]+$', name).  In Python   *)
(* '$' matches at the end of the string and also just before a line break  *)
(* that ends the string.                                                   *)
(***************************************************************************)
IsWordChar(c) == IsLower(c) \/ IsUpper(c) \/ IsDigit(c) \/ c = "_"

IdentifierPattern(name) ==
    LET body == IF name # <<>> /\ name[Len(name)] = "\n"
                THEN SubSeq(name, 1, Len(name) - 1)
                ELSE name
    IN  body # <<>> /\ \A i \in 1..Len(body) : IsWordChar(body[i])

validate_table_name(table_name) == IdentifierPattern(table_name)

validate_column_name(column_name) == IdentifierPattern(column_name)

\* the checks at the head of the adapter's methods: "" or the exception raised
CheckTable(table) == IF IdentifierPattern(table) THEN "" ELSE "ValueError"

CheckColumns(columns) ==
    IF \A i \in 1..Len(columns) : IdentifierPattern(columns[i]) THEN "" ELSE "ValueError"

CheckTableColumns(table, columns) ==
    IF CheckTable(table) # "" THEN CheckTable(table) ELSE CheckColumns(columns)

\* insert_data: the identifier checks, then  if not data: raise ValueError
CheckInsert(table, columns, data) ==
    IF CheckTableColumns(table, columns) # "" THEN "ValueError"
    ELSE IF data = <<>> THEN "ValueError"
    ELSE ""

(***************************************************************************)
(* The flat file adapter.  A file is [header, records, extra]: the header  *)
(* record, the data records (each a sequence of cell strings) and the      *)
(* number of physical lines that are no record of their own (blank lines,  *)
(* which the csv reader skips, and line breaks inside quoted cells).       *)
(* NoFile is a path with no file; a file of no line has an empty header.   *)
(***************************************************************************)
NoFile == [header |-> <<>>, records |-> <<>>, extra |-> -1]

\* sum(1 for _ in f) - 1
RowCount(file) ==
    (IF file.header = <<>> THEN 0 ELSE 1) + Len(file.records) + file.extra - 1

\* csv.DictReader: row[col] raises KeyError for a name that is no field name
HasKeys(header, selected_columns) ==
    \A i \in 1..Len(selected_columns) : selected_columns[i] \in Range(header)

\* row[col]: the last field of that name; None (restval) beyond a short record
DictGet(header, record, col) ==
    LET j == CHOOSE k \in 1..Len(header) :
                header[k] = col /\ \A m \in (k + 1)..Len(header) : header[m] # col
    IN  IF j <= Len(record) THEN StrV(record[j]) ELSE NoneV

\* [row[col] for col in selected_columns]
ProjectRow(header, record, selected_columns) ==
    [i \in 1..Len(selected_columns) |-> DictGet(header, record, selected_columns[i])]

Max(a, b) == IF a >= b THEN a ELSE b

Min(a, b) == IF a <= b THEN a ELSE b

\* rows_processed % (max(1, row_count // 100)) == 0, given row_count > 0
ReportsProgress(rows_processed, row_count) ==
    row_count > 0 /\ rows_processed % Max(1, row_count \div 100) = 0

\* the percentage of the read without its cap of 59
ReadProgressUncapped(rows_processed, row_count) ==
    15 + (45 * rows_processed) \div row_count

\* int(min(59, 15 + (rows_processed / row_count) * 45))
ReadProgressPct(rows_processed, row_count) ==
    Min(59, 15 + (45 * rows_processed) \div row_count)

\* what csv.writer writes for a value: '' for None, str(value) otherwise
CsvCell(v) ==
    CASE v.t = "none" -> <<>>
      [] v.t = "str" -> v.s
      [] v.t = "date" ->
            LET y == v.n \div 10000
                m == (v.n \div 100) % 100
                d == v.n % 100
                two(k) == IF k < 10 THEN <<"0">> \o NatToStr(k) ELSE NatToStr(k)
                four(k) == SubSeq(<<"0", "0", "0">>, 1, 4 - Len(NatToStr(k))) \o NatToStr(k)
            IN  four(y) \o <<"-">> \o two(m) \o <<"-">> \o two(d)
      [] OTHER -> PyStr(v)

LineBreaks(s) == Len(SelectSeq(s, LAMBDA c : c \in {"\n", "\r"}))

RECURSIVE SumSeq(_)
SumSeq(s) == IF s = <<>> THEN 0 ELSE Head(s) + SumSeq(Tail(s))

\* writer.writerow(columns); writer.writerows(data)
WrittenFile(columns, data) ==
    LET recs == [k \in 1..Len(data) |->
                    [j \in 1..Len(data[k]) |-> CsvCell(data[k][j])]]
    IN  [header |-> columns,
         records |-> recs,
         extra |-> SumSeq([k \in 1..Len(recs) |->
                      SumSeq([j \in 1..Len(recs[k]) |-> LineBreaks(recs[k][j])])])]

(***************************************************************************)
(* The ingestion pipeline                                                  *)
(***************************************************************************)
\* batch_size = 1000
batch_size == 1000

\* (len(processed_data) + batch_size - 1) // batch_size
TotalBatches(n) == (n + batch_size - 1) \div batch_size

\* batch_num = i // batch_size + 1
BatchNum(i) == i \div batch_size + 1

\* the share of the batches inserted without the 75 the insertion starts at
BatchShare(batch_num, total_batches) == (20 * batch_num) \div total_batches

\* int(75 + (20 * batch_num / total_batches))
BatchProgress(batch_num, total_batches) == 75 + (20 * batch_num) \div total_batches

\* a slice that stops one row short: processed_data[i:i+batch_size-1]
BatchShort(processed_data, i) ==
    SubSeq(processed_data, i + 1, Min(i + batch_size - 1, Len(processed_data)))

\* processed_data[i:i+batch_size]
Batch(processed_data, i) ==
    SubSeq(processed_data, i + 1, Min(i + batch_size, Len(processed_data)))

\* the profile chosen by the table name, applied to one row
ProcessRow(table, row, columns) ==
    LET table_name == Lower(table)
    IN  IF Contains(table_name, S_ontime) THEN process_ontime_row(row, columns)
        ELSE IF Contains(table_name, S_uk_price_paid)
        THEN process_uk_price_paid_row(row, columns)
        ELSE process_generic_row(row, columns)

\* the coercion loop over data: the processed rows, or the exception of the
\* first row that raises
ProcessData(table, data, columns) ==
    RowResult([k \in 1..Len(data) |-> ProcessRow(table, data[k], columns)])

\* raise Exception(f"Error in ... ingestion: {str(e)}"): the text before the cause
FileToStoreMessage == "Error in file to ClickHouse ingestion: "

StoreToFileMessage == "Error in ClickHouse to file ingestion: "

(***************************************************************************)
(* State                                                                   *)
(*   progress_data  the process-wide progress slot of app.py              *)
(*   emitted        the events published on the socket, in order; w is the *)
(*                  worker that published the event                        *)
(*   worker         the run_ingestion threads: position and local          *)
(*                  variables of each                                      *)
(*   store          the ClickHouse server: the rows of the table, the rows *)
(*                  it held at the start, and the log of the connection    *)
(*                  attempts and queries it received                       *)
(*   fs             the file system: the file at each path                 *)
(*   call           the last direct call of an adapter method or of a      *)
(*                  validator of utils.py, with its outcome                *)
(***************************************************************************)
VARIABLES progress_data, emitted, worker, store, fs, call

vars == <<progress_data, emitted, worker, store, fs, call>>

Workers == {1, 2}

SrcPath == "data/in.csv"

OutPath == "data/out.csv"

NoRequest == [direction |-> "", table |-> <<>>, columns |-> <<>>, filepath |-> ""]

IdleWorker ==
    [pc |-> "idle", req |-> NoRequest, data |-> <<>>, row_count |-> 0,
     rows_processed |-> 0, pos |-> 0, processed_data |-> <<>>, i |-> 0,
     total_count |-> 0, count |-> 0, exc |-> "", message |-> ""]

NoCallYet ==
    [op |-> "", table |-> <<>>, columns |-> <<>>, data |-> <<>>, result |-> "",
     out |-> <<>>]

IdleProgress ==
    [current |-> 0, total |-> 0, status |-> "idle", batch_num |-> 0, total_batches |-> 0]

ProgressEvent(w, current, total, status, batch_num, total_batches) ==
    [w |-> w, ev |-> "progress_update", current |-> current, total |-> total,
     status |-> status, batch_num |-> batch_num, total_batches |-> total_batches,
     count |-> 0, message |-> "", cause |-> ""]

CompleteEvent(w, count) ==
    [w |-> w, ev |-> "ingestion_complete", current |-> 0, total |-> 0,
     status |-> "success", batch_num |-> 0, total_batches |-> 0,
     count |-> count, message |-> "", cause |-> ""]

ErrorEvent(w, message, cause) ==
    [w |-> w, ev |-> "ingestion_error", current |-> 0, total |-> 0,
     status |-> "error", batch_num |-> 0, total_batches |-> 0,
     count |-> 0, message |-> message, cause |-> cause]

\* an entry of the store's log
LogEntry(w, kind, table, columns, nrows, ok) ==
    [w |-> w, kind |-> kind, table |-> table, columns |-> columns,
     nrows |-> nrows, ok |-> ok]

\* a slot that keeps the highest current it was given
update_progress_highest(w, current, total, status, batch_num, total_batches) ==
    /\ progress_data' =
          IF current >= progress_data.current
          THEN [current |-> current, total |-> total, status |-> status,
                batch_num |-> batch_num, total_batches |-> total_batches]
          ELSE progress_data
    /\ emitted' = Append(emitted,
                    ProgressEvent(w, current, total, status, batch_num, total_batches))

\* update_progress(current, total, status) of app.py; a batch label
\* f"inserting_batch_{batch_num}_of_{total_batches}" is the status
\* "inserting_batch" with its two numbers
update_progress(w, current, total, status, batch_num, total_batches) ==
    /\ progress_data' = [current |-> current, total |-> total, status |-> status,
                         batch_num |-> batch_num, total_batches |-> total_batches]
    /\ emitted' = Append(emitted,
                    ProgressEvent(w, current, total, status, batch_num, total_batches))

\* progress_callback(current, 100, status) with no batch numbers
Callback(w, current, status) == update_progress(w, current, 100, status, 0, 0)

Goto(w, pc) == worker' = [worker EXCEPT ![w].pc = pc]

\* ClickHouseClient(...): the connection attempt with its SELECT 1
Connect(w, ok) ==
    store' = [store EXCEPT !.log = Append(@, LogEntry(w, "connect", <<>>, <<>>, 0, ok))]

\* an exception reaches the except clause of the ingest function
Except(w, pc, kind) == worker' = [worker EXCEPT ![w].pc = pc, ![w].exc = kind]

(***************************************************************************)
(* ingest and run_ingestion of app.py                                      *)
(***************************************************************************)
\* threading.Thread(target=run_ingestion, args=(data,)).start()
ingest(w, request) ==
    /\ worker[w].pc = "idle"
    /\ worker' = [worker EXCEPT ![w].pc = "ri_reset", ![w].req = request]
    /\ UNCHANGED <<progress_data, emitted, store, fs, call>>

reset_progress(w) ==
    /\ worker[w].pc = "ri_reset"
    /\ progress_data' = IdleProgress
    /\ Goto(w, "ri_preparing")
    /\ UNCHANGED <<emitted, store, fs, call>>

RunPreparing(w) ==
    /\ worker[w].pc = "ri_preparing"
    /\ Callback(w, 0, "preparing")
    /\ Goto(w, IF worker[w].req.direction = "clickhouse_to_file"
               THEN "s2f_connecting" ELSE "f2s_reading_file")
    /\ UNCHANGED <<store, fs, call>>

\* the completion reported without its (100, 100, "completed")
RunCompletedSilent(w) ==
    /\ worker[w].pc = "ri_completed"
    /\ Goto(w, "ri_emit_complete")
    /\ UNCHANGED <<progress_data, emitted, store, fs, call>>

\* update_progress(100, 100, "completed")
RunCompleted(w) ==
    /\ worker[w].pc = "ri_completed"
    /\ update_progress(w, 100, 100, "completed", 0, 0)
    /\ Goto(w, "ri_emit_complete")
    /\ UNCHANGED <<store, fs, call>>

\* socketio.emit('ingestion_complete', {"status": "success", "count": count})
RunEmitComplete(w) ==
    /\ worker[w].pc = "ri_emit_complete"
    /\ emitted' = Append(emitted, CompleteEvent(w, worker[w].count))
    /\ Goto(w, "done")
    /\ UNCHANGED <<progress_data, store, fs, call>>

\* except Exception as e: update_progress(0, 100, "error")
RunExcept(w) ==
    /\ worker[w].pc = "ri_except"
    /\ update_progress(w, 0, 100, "error", 0, 0)
    /\ Goto(w, "ri_emit_error")
    /\ UNCHANGED <<store, fs, call>>

\* socketio.emit('ingestion_error', {"status": "error", "message": str(e)})
RunEmitError(w) ==
    /\ worker[w].pc = "ri_emit_error"
    /\ emitted' = Append(emitted, ErrorEvent(w, worker[w].message, worker[w].exc))
    /\ Goto(w, "done")
    /\ UNCHANGED <<progress_data, store, fs, call>>

(***************************************************************************)
(* ingest_file_to_clickhouse, with FileHandler.read_data and               *)
(* ClickHouseClient.insert_data                                            *)
(***************************************************************************)
F2SReadingFile(w) ==
    /\ worker[w].pc = "f2s_reading_file"
    /\ Callback(w, 10, "reading_file")
    /\ Goto(w, "read_count")
    /\ UNCHANGED <<store, fs, call>>

\* read_data, first pass: the lines are counted, then (15, "counting_rows")
ReadCount(w) ==
    /\ worker[w].pc = "read_count"
    /\ LET file == fs[worker[w].req.filepath]
       IN  IF file = NoFile
           THEN /\ Except(w, "f2s_except", "FileNotFoundError")
                /\ UNCHANGED <<progress_data, emitted>>
           ELSE /\ Callback(w, 15, "counting_rows")
                /\ worker' = [worker EXCEPT ![w].pc = "read_rows",
                                            ![w].row_count = RowCount(file),
                                            ![w].data = <<>>,
                                            ![w].rows_processed = 0,
                                            ![w].pos = 0]
    /\ UNCHANGED <<store, fs, call>>

\* the record at which the loop of read_data next reports progress, or the
\* last record when it reports none
NextReport(file, pos, rows_processed, row_count) ==
    LET reports == { k \in (pos + 1)..Len(file.records) :
                        ReportsProgress(rows_processed + (k - pos), row_count) }
    IN  IF reports = {} THEN Len(file.records)
        ELSE CHOOSE k \in reports : \A j \in reports : k <= j

\* read_data, second pass: the iterations of  for row in reader  up to and
\* including the next call of the progress callback
ReadRows(w) ==
    /\ worker[w].pc = "read_rows"
    /\ LET file == fs[worker[w].req.filepath]
           selected_columns == worker[w].req.columns
           pos == worker[w].pos
       IN  /\ pos < Len(file.records)
           /\ IF ~HasKeys(file.header, selected_columns)
              THEN \* except KeyError: continue
                   /\ worker' = [worker EXCEPT ![w].pos = Len(file.records)]
                   /\ UNCHANGED <<progress_data, emitted>>
              ELSE LET stop == NextReport(file, pos, worker[w].rows_processed,
                                         worker[w].row_count)
                       rows_processed == worker[w].rows_processed + (stop - pos)
                   IN  /\ worker' = [worker EXCEPT
                              ![w].pos = stop,
                              ![w].data = @ \o
                                  [k \in 1..(stop - pos) |->
                                      ProjectRow(file.header, file.records[pos + k],
                                                 selected_columns)],
                              ![w].rows_processed = rows_processed]
                       /\ IF ReportsProgress(rows_processed, worker[w].row_count)
                          THEN Callback(w, ReadProgressPct(rows_processed,
                                                           worker[w].row_count),
                                        "reading_data")
                          ELSE UNCHANGED <<progress_data, emitted>>
    /\ UNCHANGED <<store, fs, call>>

\* read_data returns and the transfer connects whatever was read
F2SAfterReadAlwaysConnects(w) ==
    /\ worker[w].pc = "read_rows"
    /\ worker[w].pos >= Len(fs[worker[w].req.filepath].records)
    /\ Callback(w, 60, "connecting_to_clickhouse")
    /\ Goto(w, "f2s_connect")
    /\ UNCHANGED <<store, fs, call>>

\* read_data returns;  if not data: return 0;  else (60, "connecting_to_clickhouse")
F2SAfterRead(w) ==
    /\ worker[w].pc = "read_rows"
    /\ worker[w].pos >= Len(fs[worker[w].req.filepath].records)
    /\ IF worker[w].data = <<>>
       THEN /\ worker' = [worker EXCEPT ![w].pc = "ri_completed", ![w].count = 0]
            /\ UNCHANGED <<progress_data, emitted>>
       ELSE /\ Callback(w, 60, "connecting_to_clickhouse")
            /\ Goto(w, "f2s_connect")
    /\ UNCHANGED <<store, fs, call>>

\* client = ClickHouseClient(**config['conn'])
F2SConnect(w) ==
    /\ worker[w].pc = "f2s_connect"
    /\ \E ok \in BOOLEAN :
          /\ Connect(w, ok)
          /\ IF ok THEN Goto(w, "f2s_preparing")
             ELSE Except(w, "f2s_except", "ConnectionError")
    /\ UNCHANGED <<progress_data, emitted, fs, call>>

\* the outcome r of the coercion loop: processed_data, or the exception raised
Coerced(w, r) ==
    IF r.exc # ""
    THEN Except(w, "f2s_except", r.exc)
    ELSE worker' = [worker EXCEPT ![w].pc = "f2s_inserting", ![w].processed_data = r.v]

\* (70, "preparing_data"), then the coercion loop over data
F2SPreparing(w) ==
    /\ worker[w].pc = "f2s_preparing"
    /\ Callback(w, 70, "preparing_data")
    /\ Coerced(w, ProcessData(worker[w].req.table, worker[w].data,
                               worker[w].req.columns))
    /\ UNCHANGED <<store, fs, call>>

F2SInserting(w) ==
    /\ worker[w].pc = "f2s_inserting"
    /\ Callback(w, 75, "inserting_data")
    /\ worker' = [worker EXCEPT
          ![w].i = 0,
          ![w].pc = IF Len(worker[w].processed_data) > 0
                    THEN "f2s_batch" ELSE "f2s_finalizing"]
    /\ UNCHANGED <<store, fs, call>>

\* an insert whose failure removes the rows the transfer has inserted so far
F2SInsertBatchRollback(w) ==
    /\ worker[w].pc = "f2s_batch"
    /\ LET req == worker[w].req
           batch == Batch(worker[w].processed_data, worker[w].i)
           check == CheckInsert(req.table, req.columns, batch)
       IN  IF check # ""
           THEN /\ Except(w, "f2s_except", check)
                /\ UNCHANGED store
           ELSE \E ok \in BOOLEAN :
                   /\ store' = [store EXCEPT
                         !.log = Append(@, LogEntry(w, "insert", req.table,
                                                    req.columns, Len(batch), ok)),
                         !.rows = IF ok THEN @ \o batch ELSE store.initial]
                   /\ IF ok THEN Goto(w, "f2s_batch_progress")
                      ELSE Except(w, "f2s_except", "Exception")
    /\ UNCHANGED <<progress_data, emitted, fs, call>>

\* client.insert_data(config['table'], config['columns'], batch)
F2SInsertBatch(w) ==
    /\ worker[w].pc = "f2s_batch"
    /\ LET req == worker[w].req
           batch == Batch(worker[w].processed_data, worker[w].i)
           check == CheckInsert(req.table, req.columns, batch)
       IN  IF check # ""
           THEN /\ Except(w, "f2s_except", check)
                /\ UNCHANGED store
           ELSE \E ok \in BOOLEAN :
                   /\ store' = [store EXCEPT
                         !.log = Append(@, LogEntry(w, "insert", req.table,
                                                    req.columns, Len(batch), ok)),
                         !.rows = IF ok THEN @ \o batch ELSE @]
                   /\ IF ok THEN Goto(w, "f2s_batch_progress")
                      ELSE Except(w, "f2s_except", "Exception")
    /\ UNCHANGED <<progress_data, emitted, fs, call>>

\* the progress event after a batch, and the step of  for i in range(...)
F2SBatchProgress(w) ==
    /\ worker[w].pc = "f2s_batch_progress"
    /\ LET n == Len(worker[w].processed_data)
           batch_num == BatchNum(worker[w].i)
           total_batches == TotalBatches(n)
       IN  /\ update_progress(w, BatchProgress(batch_num, total_batches), 100,
                              "inserting_batch", batch_num, total_batches)
           /\ worker' = [worker EXCEPT
                 ![w].i = @ + batch_size,
                 ![w].pc = IF worker[w].i + batch_size < n
                           THEN "f2s_batch" ELSE "f2s_finalizing"]
    /\ UNCHANGED <<store, fs, call>>

\* (95, "finalizing"); return len(processed_data)
F2SFinalizing(w) ==
    /\ worker[w].pc = "f2s_finalizing"
    /\ Callback(w, 95, "finalizing")
    /\ worker' = [worker EXCEPT ![w].pc = "ri_completed",
                                ![w].count = Len(worker[w].processed_data)]
    /\ UNCHANGED <<store, fs, call>>

\* except Exception as e: (0, 100, "error"); raise Exception(...)
F2SExcept(w) ==
    /\ worker[w].pc = "f2s_except"
    /\ Callback(w, 0, "error")
    /\ worker' = [worker EXCEPT ![w].pc = "ri_except",
                                ![w].message = FileToStoreMessage]
    /\ UNCHANGED <<store, fs, call>>

(***************************************************************************)
(* ingest_clickhouse_to_file, with ClickHouseClient.count_rows and         *)
(* fetch_data and FileHandler.write_data                                   *)
(***************************************************************************)
S2FConnecting(w) ==
    /\ worker[w].pc = "s2f_connecting"
    /\ Callback(w, 10, "connecting")
    /\ Goto(w, "s2f_connect")
    /\ UNCHANGED <<store, fs, call>>

S2FConnect(w) ==
    /\ worker[w].pc = "s2f_connect"
    /\ \E ok \in BOOLEAN :
          /\ Connect(w, ok)
          /\ IF ok THEN Goto(w, "s2f_metadata")
             ELSE Except(w, "s2f_except", "ConnectionError")
    /\ UNCHANGED <<progress_data, emitted, fs, call>>

\* (20, "fetching_metadata") followed by the fetch, the rows left uncounted
S2FMetadataUncounted(w) ==
    /\ worker[w].pc = "s2f_metadata"
    /\ Callback(w, 20, "fetching_metadata")
    /\ Goto(w, "s2f_fetching")
    /\ UNCHANGED <<store, fs, call>>

S2FMetadata(w) ==
    /\ worker[w].pc = "s2f_metadata"
    /\ Callback(w, 20, "fetching_metadata")
    /\ Goto(w, "s2f_count")
    /\ UNCHANGED <<store, fs, call>>

\* total_count = client.count_rows(config['table'])
S2FCountRows(w) ==
    /\ worker[w].pc = "s2f_count"
    /\ LET req == worker[w].req
       IN  IF CheckTable(req.table) # ""
           THEN /\ Except(w, "s2f_except", CheckTable(req.table))
                /\ UNCHANGED store
           ELSE \E ok \in BOOLEAN :
                   /\ store' = [store EXCEPT !.log =
                         Append(@, LogEntry(w, "count", req.table, <<>>, 0, ok))]
                   /\ IF ok
                      THEN worker' = [worker EXCEPT ![w].pc = "s2f_fetching",
                                             ![w].total_count = Len(store.rows)]
                      ELSE Except(w, "s2f_except", "Exception")
    /\ UNCHANGED <<progress_data, emitted, fs, call>>

S2FFetching(w) ==
    /\ worker[w].pc = "s2f_fetching"
    /\ Callback(w, 30, "fetching_data")
    /\ Goto(w, "s2f_fetch")
    /\ UNCHANGED <<store, fs, call>>

\* data = client.fetch_data(config['table'], config['columns'])
S2FFetchData(w) ==
    /\ worker[w].pc = "s2f_fetch"
    /\ LET req == worker[w].req
           check == CheckTableColumns(req.table, req.columns)
       IN  IF check # ""
           THEN /\ Except(w, "s2f_except", check)
                /\ UNCHANGED store
           ELSE \E ok \in BOOLEAN :
                   /\ store' = [store EXCEPT !.log =
                         Append(@, LogEntry(w, "fetch", req.table, req.columns, 0, ok))]
                   /\ IF ok
                      THEN worker' = [worker EXCEPT ![w].pc = "s2f_writing",
                                             ![w].data = store.rows]
                      ELSE Except(w, "s2f_except", "Exception")
    /\ UNCHANGED <<progress_data, emitted, fs, call>>

S2FWriting(w) ==
    /\ worker[w].pc = "s2f_writing"
    /\ Callback(w, 70, "writing_file")
    /\ Goto(w, "s2f_write")
    /\ UNCHANGED <<store, fs, call>>

\* os.makedirs(...); handler.write_data(config['columns'], data)
S2FWriteData(w) ==
    /\ worker[w].pc = "s2f_write"
    /\ \E ok \in BOOLEAN :
          IF ok
          THEN /\ fs' = [fs EXCEPT ![worker[w].req.filepath] =
                            WrittenFile(worker[w].req.columns, worker[w].data)]
               /\ Goto(w, "s2f_finalizing")
          ELSE /\ Except(w, "s2f_except", "PermissionError")
               /\ UNCHANGED fs
    /\ UNCHANGED <<progress_data, emitted, store, call>>

\* (95, "finalizing"); return len(data)
S2FFinalizing(w) ==
    /\ worker[w].pc = "s2f_finalizing"
    /\ Callback(w, 95, "finalizing")
    /\ worker' = [worker EXCEPT ![w].pc = "ri_completed",
                                ![w].count = Len(worker[w].data)]
    /\ UNCHANGED <<store, fs, call>>

S2FExcept(w) ==
    /\ worker[w].pc = "s2f_except"
    /\ Callback(w, 0, "error")
    /\ worker' = [worker EXCEPT ![w].pc = "ri_except",
                                ![w].message = StoreToFileMessage]
    /\ UNCHANGED <<store, fs, call>>

(***************************************************************************)
(* Direct calls of the adapter's methods on a connected client, and of the *)
(* validators of utils.py.  A query the checks let through reaches the     *)
(* store (its log entry) and succeeds or fails there.                      *)
(***************************************************************************)
CallRecord(op, table, columns, data, result, out) ==
    [op |-> op, table |-> table, columns |-> columns, data |-> data,
     result |-> result, out |-> out]

\* a method that checks, then sends one query: its log entry and its outcome
AdapterCall(op, kind, table, columns, data, check) ==
    /\ call = NoCallYet
    /\ IF check # ""
       THEN /\ call' = CallRecord(op, table, columns, data, check, <<>>)
            /\ UNCHANGED store
       ELSE \E ok \in BOOLEAN :
               /\ store' = [store EXCEPT
                     !.log = Append(@, LogEntry(0, kind, table, columns, Len(data), ok)),
                     !.rows = IF ok /\ kind = "insert" THEN @ \o data ELSE @]
               /\ call' = CallRecord(op, table, columns, data,
                                     IF ok THEN "ok" ELSE "Exception",
                                     IF ok /\ kind = "fetch" THEN store.rows
                                     ELSE IF ok /\ kind = "preview"
                                     THEN SubSeq(store.rows, 1,
                                                 Min(100, Len(store.rows)))
                                     ELSE <<>>)
    /\ UNCHANGED <<progress_data, emitted, worker, fs>>

get_columns(table) ==
    AdapterCall("get_columns", "describe", table, <<>>, <<>>, CheckTable(table))

count_rows(table) ==
    AdapterCall("count_rows", "count", table, <<>>, <<>>, CheckTable(table))

fetch_data(table, columns) ==
    AdapterCall("fetch_data", "fetch", table, columns, <<>>,
                CheckTableColumns(table, columns))

preview_data(table, columns) ==
    AdapterCall("preview_data", "preview", table, columns, <<>>,
                CheckTableColumns(table, columns))

insert_data(table, columns, data) ==
    AdapterCall("insert_data", "insert", table, columns, data,
                CheckInsert(table, columns, data))

\* validate_table_name(name) and validate_column_name(name) return a bool
CallValidateTableName(name) ==
    /\ call = NoCallYet
    /\ call' = CallRecord("validate_table_name", name, <<>>, <<>>,
                          IF validate_table_name(name) THEN "True" ELSE "False", <<>>)
    /\ UNCHANGED <<progress_data, emitted, worker, store, fs>>

CallValidateColumnName(name) ==
    /\ call = NoCallYet
    /\ call' = CallRecord("validate_column_name", <<>>, <<name>>, <<>>,
                          IF validate_column_name(name) THEN "True" ELSE "False", <<>>)
    /\ UNCHANGED <<progress_data, emitted, worker, store, fs>>

(***************************************************************************)
(* Direct calls of the three row processors on a row read from a file      *)
(***************************************************************************)
ProcessCall(op, r) ==
    /\ call.op = op
    /\ call.result = "pending"
    /\ call' = [call EXCEPT !.result = IF r.exc = "" THEN "ok" ELSE r.exc,
                            !.out = IF r.exc = "" THEN <<r.v>> ELSE <<>>]
    /\ UNCHANGED <<progress_data, emitted, worker, store, fs>>

CallProcessOntimeRow ==
    ProcessCall("process_ontime_row", process_ontime_row(call.data[1], call.columns))

CallProcessUkPricePaidRow ==
    ProcessCall("process_uk_price_paid_row",
                process_uk_price_paid_row(call.data[1], call.columns))

CallProcessGenericRow ==
    ProcessCall("process_generic_row", process_generic_row(call.data[1], call.columns))

(***************************************************************************)
(* Inputs                                                                  *)
(***************************************************************************)
\* the most data records of a small file, and rows of the table at the start
MaxRows == 2

\* the most physical lines of a file that are no record
MaxExtra == 1

\* the most full batches of a large file
MaxBatches == 2

\* the longest identifier handed to the adapter's methods and the validators
MaxNameLen == 2

SeqsUpTo(S, n) == UNION { [1..k -> S] : k \in 0..n }

S_t == <<"t">>

S_id == <<"i", "d">>

S_street == <<"s", "t", "r", "e", "e", "t">>

S_unsafe_column == <<"a", " ", "b">>

S_newline_column == <<"p", "\n">>

\* table names: generic, the two named profiles, an unsafe name, a name that
\* ends in a line break
PipelineTables ==
    { S_t,
      S_uk_price_paid,
      <<"M", "y", "O", "n", "T", "i", "m", "e">>,
      <<"t", ";">>,
      <<"t", "\n">> }

SmallHeader == <<S_price, S_date, S_unsafe_column, S_newline_column>>

PipelineColumns ==
    { <<S_price>>,
      <<S_date, S_price>>,
      <<S_price, S_id>>,
      <<S_price, S_unsafe_column>>,
      <<S_newline_column>> }

SmallRecords ==
    { <<<<"4", "2">>>>,
      <<<<"3", ".", "7">>, <<"2", "0", "2", "3", "-", "0", "1", "-", "1", "5">>>>,
      <<<<"i", "n", "f">>, <<"x">>>> }

SmallFiles ==
    { [header |-> SmallHeader, records |-> recs, extra |-> x] :
        recs \in SeqsUpTo(SmallRecords, MaxRows), x \in 0..MaxExtra }

EmptyFile == [header |-> <<>>, records |-> <<>>, extra |-> 0]

\* a file of n records over one column, record k holding the number k
BigFile(n) ==
    [header |-> <<S_price>>, records |-> [k \in 1..n |-> <<NatToStr(k)>>], extra |-> 0]

BigSizes == { k * batch_size + d : k \in 1..MaxBatches, d \in {0, 1} }

BigFiles == { BigFile(n) : n \in BigSizes }

InputFiles == SmallFiles \cup {EmptyFile} \cup BigFiles

DbRows ==
    { <<IntV(1), StrV(<<"a", "\n", "b">>)>>,
      <<NoneV, DateV(2023, 1, 15)>> }

DbInits == SeqsUpTo(DbRows, MaxRows)

Request(direction, table, columns) ==
    [direction |-> direction, table |-> table, columns |-> columns,
     filepath |-> IF direction = "clickhouse_to_file" THEN OutPath ELSE SrcPath]

\* the requests made against a file system: a large file is loaded into the
\* generic table, a small one into any table with any column list
Requests(files) ==
    IF files[SrcPath] \in BigFiles
    THEN { Request("file_to_clickhouse", S_t, <<S_price>>) }
    ELSE { Request(d, t, c) :
             d \in {"clickhouse_to_file", "file_to_clickhouse"},
             t \in PipelineTables, c \in PipelineColumns }

TypeOK ==
    /\ progress_data.current \in 0..100
    /\ \A w \in Workers : worker[w].pc \in
          { "idle", "ri_reset", "ri_preparing", "ri_completed", "ri_emit_complete",
            "ri_except", "ri_emit_error", "done", "f2s_reading_file", "read_count",
            "read_rows", "f2s_connect", "f2s_preparing", "f2s_inserting", "f2s_batch",
            "f2s_batch_progress", "f2s_finalizing", "f2s_except", "s2f_connecting",
            "s2f_connect", "s2f_metadata", "s2f_count", "s2f_fetching", "s2f_fetch",
            "s2f_writing", "s2f_write", "s2f_finalizing", "s2f_except" }

(***************************************************************************)
(* Spec: one transfer, started by ingest on an idle server                 *)
(***************************************************************************)
InitCommon ==
    /\ progress_data = IdleProgress
    /\ emitted = <<>>
    /\ worker = [w \in Workers |-> IdleWorker]
    /\ call = NoCallYet

Init ==
    /\ InitCommon
    /\ \/ /\ fs \in { [p \in {SrcPath, OutPath} |-> IF p = SrcPath THEN f ELSE NoFile] :
                        f \in InputFiles }
          /\ store = [rows |-> <<>>, initial |-> <<>>, log |-> <<>>]
       \/ /\ fs = [p \in {SrcPath, OutPath} |-> NoFile]
          /\ store \in { [rows |-> r, initial |-> r, log |-> <<>>] : r \in DbInits }

\* the first request to the ingest endpoint
FirstRequest ==
    /\ \A w \in Workers : worker[w].pc = "idle"
    /\ \E request \in Requests(fs) : ingest(1, request)

Step(w) ==
    \/ reset_progress(w)
    \/ RunPreparing(w)
    \/ F2SReadingFile(w)
    \/ ReadCount(w)
    \/ ReadRows(w)
    \/ F2SAfterRead(w)
    \/ F2SConnect(w)
    \/ F2SPreparing(w)
    \/ F2SInserting(w)
    \/ F2SInsertBatch(w)
    \/ F2SBatchProgress(w)
    \/ F2SFinalizing(w)
    \/ F2SExcept(w)
    \/ S2FConnecting(w)
    \/ S2FConnect(w)
    \/ S2FMetadata(w)
    \/ S2FCountRows(w)
    \/ S2FFetching(w)
    \/ S2FFetchData(w)
    \/ S2FWriting(w)
    \/ S2FWriteData(w)
    \/ S2FFinalizing(w)
    \/ S2FExcept(w)
    \/ RunCompleted(w)
    \/ RunEmitComplete(w)
    \/ RunExcept(w)
    \/ RunEmitError(w)

Next == FirstRequest \/ \E w \in Workers : Step(w)

Spec == Init /\ [][Next]_vars

(***************************************************************************)
(* SpecAdapter: one direct call of an adapter method or a validator        *)
(***************************************************************************)
NameAlphabet == {"a", "Z", "7", "_", " ", ";", "-", "\n"}

Names == SeqsUpTo(NameAlphabet, MaxNameLen)

S_good == <<"c", "_", "1">>

\* a table with a safe column list, and a safe table with a column list that
\* holds the name alone, first or last
AdapterArgs ==
    { <<n, <<S_good>>>> : n \in Names }
      \cup { <<S_good, cols>> :
               cols \in UNION { { <<>>, <<n>>, <<S_good, n>>, <<n, S_good>> } : n \in Names } }

\* the table of the store the methods are called on
AdapterTable == <<<<IntV(1), StrV(<<"a", "\n", "b">>)>>, <<NoneV, DateV(2023, 1, 15)>>>>

\* the row lists handed to insert_data: none, one row
AdapterData == { <<>>, <<<<IntV(2), StrV(<<"c">>)>>>> }

InitAdapter ==
    /\ InitCommon
    /\ fs = [p \in {SrcPath, OutPath} |-> NoFile]
    /\ store = [rows |-> AdapterTable, initial |-> AdapterTable, log |-> <<>>]

NextAdapter ==
    \/ \E n \in Names : get_columns(n)
    \/ \E n \in Names : count_rows(n)
    \/ \E a \in AdapterArgs : fetch_data(a[1], a[2])
    \/ \E a \in AdapterArgs : preview_data(a[1], a[2])
    \/ \E a \in AdapterArgs, data \in AdapterData : insert_data(a[1], a[2], data)
    \/ \E n \in Names : CallValidateTableName(n)
    \/ \E n \in Names : CallValidateColumnName(n)

SpecAdapter == InitAdapter /\ [][NextAdapter]_vars

(***************************************************************************)
(* SpecCoerce: one direct call of a row processor on a row of one or two   *)
(* cells as read_data yields them (strings, or None for a missing field)   *)
(***************************************************************************)
CoerceStrings ==
    { <<>>,
      <<"4", "2">>,
      <<"3", ".", "7">>,
      <<"-", "3", ".", "7">>,
      <<"a", "b", "c">>,
      <<"i", "n", "f">>,
      <<"n", "a", "n">>,
      <<"1", "e", "9", "9", "9">>,
      <<" ", "7", " ">>,
      <<"1", "e", "3">>,
      <<"2", "0", "2", "3", "-", "0", "1", "-", "1", "5">>,
      <<"1", "5", "/", "0", "1", "/", "2", "0", "2", "3">>,
      <<"2", "0", "2", "3", "/", "0", "1", "/", "1", "5">>,
      <<"n", "o", "t", "-", "a", "-", "d", "a", "t", "e">>,
      <<"2", "0", "2", "3", "-", "0", "2", "-", "3", "0">>,
      <<"D", "e", "t", "a", "c", "h", "e", "d">>,
      <<"b", "u", "n", "g", "a", "l", "o", "w">>,
      <<"Y", "e", "s">>,
      <<"n">>,
      <<"s", "w", "1", "a", " ", "1", "a", "a", " ">> }

CoerceCells == {NoneV} \cup { StrV(s) : s \in CoerceStrings }

OntimeSampleColumns ==
    { <<"F", "l", "i", "g", "h", "t", "D", "a", "t", "e">>,
      <<"Y", "e", "a", "r">>,
      <<"D", "e", "p", "D", "e", "l", "a", "y">>,
      <<"D", "i", "s", "t", "a", "n", "c", "e">>,
      <<"T", "a", "i", "l", "_", "N", "u", "m", "b", "e", "r">> }

UkSampleColumns ==
    { <<"p", "r", "i", "c", "e">>,
      <<"d", "a", "t", "e">>,
      <<"t", "y", "p", "e">>,
      <<"i", "s", "_", "n", "e", "w">>,
      <<"d", "u", "r", "a", "t", "i", "o", "n">>,
      <<"p", "o", "s", "t", "c", "o", "d", "e", "1">>,
      <<"s", "t", "r", "e", "e", "t">> }

GenericSampleColumns ==
    { <<"i", "d">>,
      <<"p", "r", "i", "c", "e">>,
      <<"O", "r", "d", "e", "r", "D", "a", "t", "e">>,
      <<"s", "t", "r", "e", "e", "t">>,
      <<"s", "u", "m", "\n">> }

\* a call on the row <<v>> over <<c>>, or on <<"x", v>> over <<street, c>>
ProcessInputs(op, columns) ==
    { CallRecord(op, <<>>, <<c>>, <<<<v>>>>, "pending", <<>>) :
        c \in columns, v \in CoerceCells }
      \cup { CallRecord(op, <<>>, <<S_street, c>>, <<<<StrV(<<"x">>), v>>>>, "pending", <<>>) :
               c \in columns, v \in CoerceCells }

InitCoerce ==
    /\ progress_data = IdleProgress
    /\ emitted = <<>>
    /\ worker = [w \in Workers |-> IdleWorker]
    /\ fs = [p \in {SrcPath, OutPath} |-> NoFile]
    /\ store = [rows |-> <<>>, initial |-> <<>>, log |-> <<>>]
    /\ call \in ProcessInputs("process_ontime_row", OntimeSampleColumns)
                  \cup ProcessInputs("process_uk_price_paid_row", UkSampleColumns)
                  \cup ProcessInputs("process_generic_row", GenericSampleColumns)

NextCoerce ==
    \/ CallProcessOntimeRow
    \/ CallProcessUkPricePaidRow
    \/ CallProcessGenericRow

SpecCoerce == InitCoerce /\ [][NextCoerce]_vars

(***************************************************************************)
(* Observations on a run                                                   *)
(***************************************************************************)
\* the progress events worker w published, in order
Progress(w) == SelectSeq(emitted, LAMBDA e : e.w = w /\ e.ev = "progress_update")

\* the connection attempts and queries of worker w, in order
LogOf(w) == SelectSeq(store.log, LAMBDA e : e.w = w)

Inserts(w) == SelectSeq(store.log, LAMBDA e : e.w = w /\ e.kind = "insert")

Kinds(log) == [i \in 1..Len(log) |-> log[i].kind]

\* status and current of each event
Phases(events) == [i \in 1..Len(events) |-> <<events[i].status, events[i].current>>]

IsFileToStore(w) == worker[w].req.direction = "file_to_clickhouse"

IsStoreToFile(w) == worker[w].req.direction = "clickhouse_to_file"

\* run_ingestion of worker w has ended and nothing was raised
Succeeded(w) == worker[w].pc = "done" /\ worker[w].exc = ""

PositionOf(events, status) == CHOOSE i \in 1..Len(events) : events[i].status = status

Last(s) == s[Len(s)]

\* the whole name matches ^[A-Za-z0-9_]+$
SafeIdentifier(name) == name # <<>> /\ \A i \in 1..Len(name) : IsWordChar(name[i])

SafeColumns(columns) == \A i \in 1..Len(columns) : SafeIdentifier(columns[i])

CeilDiv(n, d) == IF n % d = 0 THEN n \div d ELSE n \div d + 1

(***************************************************************************)
(* Properties                                                              *)
(***************************************************************************)
FileToStorePhases ==
    << <<"reading_file", 10>>, <<"connecting_to_clickhouse", 60>>,
       <<"preparing_data", 70>>, <<"inserting_data", 75>>,
       <<"finalizing", 95>>, <<"completed", 100>> >>

FileToStoreMain(events) ==
    SelectSeq(events, LAMBDA e : e.status \in
        {"reading_file", "connecting_to_clickhouse", "preparing_data",
         "inserting_data", "finalizing", "completed"})

Between(events, i, first, last) ==
    PositionOf(events, first) < i /\ i < PositionOf(events, last)

\* C1: a file-to-store transfer that succeeds with a non-empty row set
\* publishes reading_file (10), connecting_to_clickhouse (60),
\* preparing_data (70), inserting_data (75), finalizing (95) and
\* completed (100) each once and in this order, every event with total 100;
\* the events of the file read lie between reading_file and
\* connecting_to_clickhouse with current in 15..59, the batch events between
\* inserting_data and finalizing with current in 75..95.
C1_FileToStorePhaseOrder ==
    \A w \in Workers :
        (Succeeded(w) /\ IsFileToStore(w) /\ worker[w].count > 0) =>
            /\ Phases(FileToStoreMain(Progress(w))) = FileToStorePhases
            /\ \A i \in 1..Len(Progress(w)) :
                  /\ Progress(w)[i].total = 100
                  /\ Progress(w)[i].status \in
                        {"preparing"} \cup {"counting_rows", "reading_data",
                         "inserting_batch"} \cup
                        {FileToStorePhases[k][1] : k \in 1..6}
                  /\ Progress(w)[i].status \in {"counting_rows", "reading_data"} =>
                        /\ Between(Progress(w), i, "reading_file",
                                   "connecting_to_clickhouse")
                        /\ Progress(w)[i].current \in 15..59
                  /\ Progress(w)[i].status = "inserting_batch" =>
                        /\ Between(Progress(w), i, "inserting_data", "finalizing")
                        /\ Progress(w)[i].current \in 75..95

\* a successful transfer of more than two batches whose read reported rows
C1_Witness ==
    \E w \in Workers :
        /\ Succeeded(w) /\ IsFileToStore(w)
        /\ worker[w].count > batch_size
        /\ \E i \in 1..Len(Progress(w)) :
              Progress(w)[i].status = "reading_data" /\ Progress(w)[i].current = 59
        /\ \E i \in 1..Len(Progress(w)) :
              Progress(w)[i].status = "inserting_batch" /\ Progress(w)[i].batch_num = 2

StoreToFilePhases ==
    << <<"preparing", 0>>, <<"connecting", 10>>, <<"fetching_metadata", 20>>,
       <<"fetching_data", 30>>, <<"writing_file", 70>>, <<"finalizing", 95>>,
       <<"completed", 100>> >>

IsPrefix(s, t) == Len(s) <= Len(t) /\ s = SubSeq(t, 1, Len(s))

\* C2: a successful store-to-file transfer publishes connecting (10),
\* fetching_metadata (20), fetching_data (30), writing_file (70),
\* finalizing (95) and completed (100) in this order; the connection is
\* opened before the rows are counted, the rows are counted before they are
\* fetched, and they are fetched before the file is written; the count
\* returned is the number of rows fetched.
C2_StoreToFilePhaseOrder ==
    \A w \in Workers :
        IsStoreToFile(w) =>
            /\ IsPrefix(Kinds(LogOf(w)), <<"connect", "count", "fetch">>)
            /\ \A i \in 1..(Len(LogOf(w)) - 1) : LogOf(w)[i].ok
            /\ fs[worker[w].req.filepath] # NoFile =>
                  /\ Len(LogOf(w)) = 3 /\ LogOf(w)[3].ok
                  /\ fs[worker[w].req.filepath] =
                        WrittenFile(worker[w].req.columns, store.rows)
            /\ Succeeded(w) =>
                  /\ Phases(Progress(w)) = StoreToFilePhases
                  /\ \A i \in 1..Len(Progress(w)) : Progress(w)[i].total = 100
                  /\ Kinds(LogOf(w)) = <<"connect", "count", "fetch">>
                  /\ fs[worker[w].req.filepath] # NoFile
                  /\ worker[w].count = Len(store.rows)
                  /\ Last(emitted) = CompleteEvent(w, Len(store.rows))

\* a successful transfer of a table that holds rows
C2_Witness ==
    \E w \in Workers :
        /\ Succeeded(w) /\ IsStoreToFile(w)
        /\ Len(store.rows) > 1
        /\ Len(fs[worker[w].req.filepath].records) > 1

\* C3: within one successful transfer the current values of the progress
\* events never decrease, and the last progress event before the completion
\* is reported has current equal to total; this holds in both directions and
\* when the file yields no rows.
C3_ProgressMonotone ==
    \A w \in Workers :
        Succeeded(w) =>
            /\ \A i, j \in 1..Len(Progress(w)) :
                  i < j => Progress(w)[i].current <= Progress(w)[j].current
            /\ Len(emitted) > 1
            /\ Last(emitted).ev = "ingestion_complete"
            /\ emitted[Len(emitted) - 1].ev = "progress_update"
            /\ emitted[Len(emitted) - 1].current = emitted[Len(emitted) - 1].total

\* a successful transfer that reported rows read and two batches inserted
C3_Witness ==
    \E w \in Workers :
        /\ Succeeded(w)
        /\ \E i \in 1..Len(Progress(w)) : Progress(w)[i].status = "reading_data"
        /\ \E i \in 1..Len(Progress(w)) :
              Progress(w)[i].status = "inserting_batch" /\ Progress(w)[i].batch_num = 2
        /\ \E i \in 1..Len(Progress(w)) : Progress(w)[i].current = 95

ErrorEvents(events) == SelectSeq(events, LAMBDA e : e.status = "error")

\* the connection attempt of worker w failed
ConnectionFailed(w) ==
    \E i \in 1..Len(LogOf(w)) : LogOf(w)[i].kind = "connect" /\ ~LogOf(w)[i].ok

\* C4: when the connection of a file-to-store transfer with rows to insert
\* fails, the transfer publishes exactly one progress event with status
\* error (current 0, total 100), no progress event follows it, and the
\* failure reported carries the message that names the direction.
C4_OneErrorEvent ==
    \A w \in Workers :
        (worker[w].pc = "done" /\ IsFileToStore(w) /\ ConnectionFailed(w)) =>
            /\ Len(ErrorEvents(Progress(w))) = 1
            /\ Last(Progress(w)).status = "error"
            /\ Last(Progress(w)).current = 0
            /\ Last(Progress(w)).total = 100
            /\ Last(emitted).ev = "ingestion_error"
            /\ Last(emitted).message = FileToStoreMessage

\* the states of a transfer before read_data has returned
BeforeReadReturns ==
    {"idle", "ri_reset", "ri_preparing", "f2s_reading_file", "read_count", "read_rows"}

\* C5: when the read of a file-to-store transfer yields no rows after the
\* projection, the transfer returns 0 and neither connects to the store nor
\* inserts; the completion reports the count 0.
C5_EmptyShortCircuit ==
    \A w \in Workers :
        (/\ IsFileToStore(w)
         /\ worker[w].pc \notin BeforeReadReturns
         /\ worker[w].exc = ""
         /\ worker[w].data = <<>>) =>
            /\ worker[w].pc \in {"ri_completed", "ri_emit_complete", "done"}
            /\ worker[w].count = 0
            /\ LogOf(w) = <<>>
            /\ store.rows = store.initial
            /\ \A i \in 1..Len(Progress(w)) :
                  Progress(w)[i].status \in
                      {"preparing", "reading_file", "counting_rows", "completed"}
            /\ worker[w].pc = "done" => Last(emitted) = CompleteEvent(w, 0)

\* a completed transfer of a file whose records were all dropped by the read
C5_Witness ==
    \E w \in Workers :
        /\ Succeeded(w) /\ IsFileToStore(w)
        /\ worker[w].data = <<>>
        /\ Len(fs[worker[w].req.filepath].records) > 0

\* the rows of the inserts of a log, one after the other
InsertedRows(w) == SumSeq([k \in 1..Len(Inserts(w)) |-> Inserts(w)[k].nrows])

\* C6: a successful file-to-store transfer of N >= 1 coerced rows issues
\* ceil(N / 1000) inserts, in row order, each of at least 1 and at most 1000
\* rows; the batches one after the other are the coerced rows; N is returned.
C6_BatchSplitting ==
    \A w \in Workers :
        (Succeeded(w) /\ IsFileToStore(w) /\ worker[w].data # <<>>) =>
            /\ worker[w].processed_data =
                  ProcessData(worker[w].req.table, worker[w].data,
                              worker[w].req.columns).v
            /\ Len(worker[w].processed_data) = Len(worker[w].data)
            /\ Len(Inserts(w)) = CeilDiv(Len(worker[w].processed_data), 1000)
            /\ \A k \in 1..Len(Inserts(w)) :
                  /\ Inserts(w)[k].ok
                  /\ Inserts(w)[k].nrows \in 1..1000
                  /\ k < Len(Inserts(w)) => Inserts(w)[k].nrows = 1000
            /\ InsertedRows(w) = Len(worker[w].processed_data)
            /\ store.rows = store.initial \o worker[w].processed_data
            /\ worker[w].count = Len(worker[w].processed_data)
            /\ Last(emitted) = CompleteEvent(w, Len(worker[w].processed_data))

\* a successful transfer whose last batch is a single row after two full ones
C6_Witness ==
    \E w \in Workers :
        /\ Succeeded(w) /\ IsFileToStore(w)
        /\ Len(worker[w].processed_data) = 2 * batch_size + 1
        /\ Len(Inserts(w)) = 3
        /\ Inserts(w)[3].nrows = 1

\* the insert of worker w that failed, if one did
FailedInsert(w) == \E k \in 1..Len(Inserts(w)) : ~Inserts(w)[k].ok

\* C7: when the insert of batch k fails, the k - 1 batches inserted before it
\* stay in the table, no later batch is attempted, nothing is retried or
\* deleted, and the transfer ends with the error progress event and a failure
\* whose message names the direction.
C7_NoRollback ==
    \A w \in Workers :
        FailedInsert(w) =>
            /\ ~Last(LogOf(w)).ok /\ Last(LogOf(w)).kind = "insert"
            /\ \A k \in 1..(Len(Inserts(w)) - 1) : Inserts(w)[k].ok
            /\ store.rows = store.initial \o
                  SubSeq(worker[w].processed_data, 1,
                         (Len(Inserts(w)) - 1) * batch_size)
            /\ worker[w].pc \in {"f2s_except", "ri_except", "ri_emit_error", "done"}
            /\ worker[w].pc # "f2s_except" =>
                  /\ Last(Progress(w)).status = "error"
                  /\ Last(Progress(w)).current = 0
                  /\ Last(Progress(w)).total = 100
                  /\ worker[w].message = FileToStoreMessage
            /\ worker[w].pc = "done" =>
                  /\ Last(emitted).ev = "ingestion_error"
                  /\ Last(emitted).message = FileToStoreMessage

\* a transfer that ended after its third insert failed
C7_Witness ==
    \E w \in Workers :
        /\ FailedInsert(w)
        /\ Len(Inserts(w)) = 3
        /\ Len(store.rows) = 2 * batch_size
        /\ worker[w].pc = "done"

AdapterOps == {"get_columns", "count_rows", "fetch_data", "preview_data", "insert_data"}

\* C8: a table or column name is accepted if and only if the whole name
\* matches ^[A-Za-z0-9_]+$; the empty name and a name with whitespace,
\* punctuation or a line break is rejected.  The two validators return True
\* exactly for the safe names, and a method of the store adapter raises the
\* validation error exactly when one of its names is not safe (insert_data
\* also when it is given no rows).
C8_IdentifierValidation ==
    /\ call.op = "validate_table_name" =>
          (call.result = "True" <=> SafeIdentifier(call.table))
    /\ call.op = "validate_column_name" =>
          (call.result = "True" <=> SafeIdentifier(call.columns[1]))
    /\ call.op \in AdapterOps =>
          (call.result = "ValueError" <=>
              \/ ~SafeIdentifier(call.table)
              \/ ~SafeColumns(call.columns)
              \/ call.op = "insert_data" /\ call.data = <<>>)

\* C9: no query reaches the store with a table or column name that fails
\* the safety check, and no insert reaches it without rows: every entry of
\* the store's log other than a connection attempt names safe identifiers.
C9_ValidationPrecedesQuery ==
    \A i \in 1..Len(store.log) :
        store.log[i].kind # "connect" =>
            /\ SafeIdentifier(store.log[i].table)
            /\ SafeColumns(store.log[i].columns)
            /\ store.log[i].kind = "insert" => store.log[i].nrows > 0

\* C10: whatever the profile, the column names and the cells of a row, the
\* coercion of the row returns a row of the same length and raises nothing.
C10_CoercionNeverRaises ==
    (call.op \in {"process_ontime_row", "process_uk_price_paid_row",
                  "process_generic_row"} /\ call.result # "pending") =>
        /\ call.result = "ok"
        /\ Len(call.out) = 1
        /\ Len(call.out[1]) = Len(call.data[1])

ProcessOps == {"process_ontime_row", "process_uk_price_paid_row", "process_generic_row"}

\* the columns a profile coerces to an integer
IntegerColumn(op, col) ==
    CASE op = "process_ontime_row" -> col \in OntimeNumericColumns
      [] op = "process_uk_price_paid_row" -> col = S_price
      [] OTHER -> ~EndsWith(Lower(col), S_date) /\ NumericHint(Lower(col))

\* of these, the columns whose text may be fractional
FractionalField(op, col) ==
    CASE op = "process_ontime_row" -> col \in OntimeFloatColumns
      [] OTHER -> TRUE

\* text that is a valid integer: an optional sign and decimal digits
IsIntegerText(s) ==
    /\ Unsigned(Strip(s)) # <<>>
    /\ \A i \in 1..Len(Unsigned(Strip(s))) : IsDigit(Unsigned(Strip(s))[i])

IntegerTextValue(s) == SignOf(Strip(s)) * DigitsVal(Unsigned(Strip(s)))

\* text that is a finite number
IsNumberText(s) == FloatOfStr(s).exc = "" /\ FloatOfStr(s).kind = "fin"

\* the integer a cell of text s of an integer column is to become
IntegerReference(op, col, s) ==
    IF s = <<>> THEN IntV(0)
    ELSE IF IsIntegerText(s) THEN IntV(IntegerTextValue(s))
    ELSE IF FractionalField(op, col) /\ IsNumberText(s) THEN IntV(FloatOfStr(s).trunc)
    ELSE IF op = "process_generic_row" THEN StrV(s)
    ELSE IntV(0)

\* C11: for every integer column of a profile and every cell of text, the
\* coercion gives 0 for the empty text, the integer for integer text, the
\* truncated value for fractional text on a fractional field, and for text
\* that cannot be parsed 0 in the flight and real-estate profiles and the
\* unchanged text in the generic profile.
C11_IntegerCoercionReference ==
    (call.op \in ProcessOps /\ call.result # "pending") =>
        \A i \in 1..Len(call.columns) :
            (IntegerColumn(call.op, call.columns[i]) /\ IsStr(call.data[1][i])) =>
                /\ call.result = "ok"
                /\ call.out[1][i] =
                      IntegerReference(call.op, call.columns[i], call.data[1][i].s)

\* the columns a profile coerces to a date
DateColumn(op, col) ==
    CASE op = "process_ontime_row" -> col = S_FlightDate
      [] op = "process_uk_price_paid_row" -> col = S_date
      [] OTHER -> EndsWith(Lower(col), S_date)

\* the formats of DateFormats that parse s, in their order
ParsingFormats(s) == SelectSeq(DateFormats, LAMBDA fmt : Strptime(s, fmt).exc = "")

\* the first of the three formats that parses s gives the date; text that
\* none of them parses stays as it is
DateReference(s) ==
    IF ParsingFormats(s) = <<>> THEN StrV(s) ELSE Strptime(s, ParsingFormats(s)[1]).v

\* C12: for the date column of every profile (FlightDate, date, a name that
\* ends in date), a day written as YYYY-MM-DD, DD/MM/YYYY or YYYY/MM/DD is
\* coerced to the same date, the first format that parses winning; text in
\* none of the formats is returned unchanged, and nothing is raised.
C12_DateCoercion ==
    (call.op \in ProcessOps /\ call.result # "pending") =>
        \A i \in 1..Len(call.columns) :
            (DateColumn(call.op, call.columns[i]) /\ IsStr(call.data[1][i])) =>
                /\ call.result = "ok"
                /\ call.out[1][i] = DateReference(call.data[1][i].s)

\* the field of a record under the name col, when the header has the name
FieldOf(header, col) ==
    CHOOSE k \in 1..Len(header) :
        header[k] = col /\ \A m \in (k + 1)..Len(header) : header[m] # col

\* the record has a value for every requested column
HasEveryColumn(header, record, columns) ==
    \A i \in 1..Len(columns) :
        columns[i] \in Range(header) /\ FieldOf(header, columns[i]) <= Len(record)

\* the projection of the records that have every requested column
LossyRead(file, columns) ==
    LET kept == SelectSeq(file.records,
                          LAMBDA r : HasEveryColumn(file.header, r, columns))
    IN  [k \in 1..Len(kept) |->
            [i \in 1..Len(columns) |->
                StrV(kept[k][FieldOf(file.header, columns[i])])]]

\* C13: read_data returns, in file order, the projection onto the requested
\* columns of the records that have a value for every requested column; a
\* record that lacks one (the name is not in the header, or the record has
\* fewer fields than the header) is left out, and the read succeeds.
C13_LossySkip ==
    \A w \in Workers :
        (/\ IsFileToStore(w)
         /\ worker[w].pc \notin BeforeReadReturns
         /\ fs[worker[w].req.filepath] # NoFile) =>
            /\ worker[w].exc # "FileNotFoundError"
            /\ worker[w].data =
                  LossyRead(fs[worker[w].req.filepath], worker[w].req.columns)

(***************************************************************************)
(* The text of a csv file, as csv.writer writes it and csv.reader parses   *)
(* it (default dialect: delimiter given, quote character '"', doubled      *)
(* quotes, minimal quoting, line terminator "\r\n", not strict)            *)
(***************************************************************************)
\* the delimiter FileHandler is constructed with
Delimiter == ","

\* a field is quoted when it holds the delimiter, a quote or a line break
NeedsQuote(field) ==
    \E i \in 1..Len(field) : field[i] \in {Delimiter, "\"", "\r", "\n"}

RECURSIVE DoubleQuotes(_)
DoubleQuotes(field) ==
    IF field = <<>> THEN <<>>
    ELSE (IF Head(field) = "\"" THEN <<"\"", "\"">> ELSE <<Head(field)>>)
            \o DoubleQuotes(Tail(field))

\* a field written as it is, never quoted
CsvFieldUnquoted(field, n) == field

\* one field of a record of n fields; a record of one empty field is quoted
CsvField(field, n) ==
    IF NeedsQuote(field) \/ (n = 1 /\ field = <<>>)
    THEN <<"\"">> \o DoubleQuotes(field) \o <<"\"">>
    ELSE field

RECURSIVE JoinFields(_, _, _)
JoinFields(fields, k, n) ==
    IF k > n THEN <<>>
    ELSE CsvField(fields[k], n) \o (IF k < n THEN <<Delimiter>> ELSE <<>>)
            \o JoinFields(fields, k + 1, n)

\* writer.writerow(fields)
CsvLine(fields) == JoinFields(fields, 1, Len(fields)) \o <<"\r", "\n">>

RECURSIVE ConcatLines(_)
ConcatLines(lines) ==
    IF lines = <<>> THEN <<>> ELSE Head(lines) \o ConcatLines(Tail(lines))

\* writer.writerow(columns); writer.writerows(data): the text of the file
WrittenText(columns, data) ==
    CsvLine(columns) \o
    ConcatLines([k \in 1..Len(data) |->
                    CsvLine([j \in 1..Len(data[k]) |-> CsvCell(data[k][j])])])

\* the state of the reader: the records read, the fields of the record and
\* the characters of the field being read, and where in a field it is
ReaderStart ==
    [mode |-> "start_record", field |-> <<>>, record |-> <<>>, records |-> <<>>]

EndField(st) == [st EXCEPT !.record = Append(@, st.field), !.field = <<>>]

\* the end of a line: the record is complete
EndRecord(st, mode) ==
    [mode |-> mode, field |-> <<>>, record |-> <<>>,
     records |-> Append(st.records, st.record)]

AddChar(st, c, mode) == [st EXCEPT !.field = Append(@, c), !.mode = mode]

\* the reader on one character
ReaderStep(st, c) ==
    CASE st.mode = "after_cr" /\ c = "\n" -> [st EXCEPT !.mode = "start_record"]
      [] st.mode \in {"start_record", "after_cr"} /\ c \in {"\r", "\n"} ->
            EndRecord(st, IF c = "\r" THEN "after_cr" ELSE "start_record")
      [] st.mode \in {"start_record", "after_cr", "start_field"} /\ c = "\"" ->
            [st EXCEPT !.mode = "in_quoted"]
      [] st.mode \in {"start_record", "after_cr", "start_field", "in_field",
                      "quote_in_quoted"} /\ c = Delimiter ->
            [EndField(st) EXCEPT !.mode = "start_field"]
      [] st.mode \in {"start_field", "in_field", "quote_in_quoted"}
            /\ c \in {"\r", "\n"} ->
            EndRecord(EndField(st), IF c = "\r" THEN "after_cr" ELSE "start_record")
      [] st.mode = "in_quoted" /\ c = "\"" -> [st EXCEPT !.mode = "quote_in_quoted"]
      [] st.mode = "in_quoted" -> AddChar(st, c, "in_quoted")
      [] st.mode = "quote_in_quoted" /\ c = "\"" -> AddChar(st, c, "in_quoted")
      [] OTHER -> AddChar(st, c, "in_field")

RECURSIVE ReaderRun(_, _, _)
ReaderRun(text, k, st) ==
    IF k > Len(text) THEN st ELSE ReaderRun(text, k + 1, ReaderStep(st, text[k]))

\* the records of csv.reader over the text; a blank line is the record <<>>
ReaderFinish(st) ==
    IF st.mode \in {"start_record", "after_cr"} THEN st.records
    ELSE Append(st.records, Append(st.record, st.field))

CsvRecords(text) == ReaderFinish(ReaderRun(text, 1, ReaderStart))

\* the lines of  for _ in f  of a file opened with newline='': a line ends
\* with "\r\n", "\r" or "\n", and the text after the last line break is a line
LineCount(text) ==
    Cardinality({ i \in 1..Len(text) :
                    \/ text[i] = "\n"
                    \/ text[i] = "\r" /\ (i = Len(text) \/ text[i + 1] # "\n") })
    + (IF text # <<>> /\ Last(text) \notin {"\r", "\n"} THEN 1 ELSE 0)

NonBlank(records) == SelectSeq(records, LAMBDA r : r # <<>>)

\* the file a text is to csv.DictReader: the first record is the header and
\* blank lines after it are skipped
FileOfRecords(text, records) ==
    [header |-> IF records = <<>> THEN <<>> ELSE Head(records),
     records |-> IF records = <<>> THEN <<>> ELSE NonBlank(Tail(records)),
     extra |-> LineCount(text)
                 - (IF records = <<>> \/ Head(records) = <<>> THEN 0 ELSE 1)
                 - (IF records = <<>> THEN 0 ELSE Len(NonBlank(Tail(records))))]

FileOfText(text) == FileOfRecords(text, CsvRecords(text))

\* read_data(selected_columns) of a file that exists, with no progress sink
ReadData(file, selected_columns) ==
    IF HasKeys(file.header, selected_columns)
    THEN [k \in 1..Len(file.records) |->
             ProjectRow(file.header, file.records[k], selected_columns)]
    ELSE <<>>

(***************************************************************************)
(* SpecRoundTrip: write_data(columns, data) on a path, then                *)
(* read_data(columns) on the same path with the same delimiter             *)
(***************************************************************************)
RoundTripColumns ==
    { <<<<"a">>>>,
      <<<<"a">>, <<"b">>>>,
      <<<<"a">>, <<"a">>>>,
      <<<<"a", ",", "b">>, <<"c">>>> }

\* the cells of rows of one column: text with the characters csv quotes, and
\* the values of the database driver
RoundTripCells ==
    { StrV(<<>>), StrV(<<"x">>), StrV(<<"a", ",", "b">>), StrV(<<"q", "\"">>),
      StrV(<<"l", "\n", "m">>), StrV(<<"\r">>),
      IntV(42), NoneV, DateV(2023, 1, 15) }

\* the cells of rows of two columns
RoundTripPairCells == { StrV(<<>>), StrV(<<"x">>), StrV(<<"a", ",", "b">>), IntV(42) }

\* the rows with one cell for every column
RoundTripRows(columns) ==
    IF Len(columns) = 1 THEN { <<v>> : v \in RoundTripCells }
    ELSE { <<u, v>> : u \in RoundTripPairCells, v \in RoundTripPairCells }

\* handler.write_data(columns, data)
write_data(columns, data) ==
    /\ call = NoCallYet
    /\ fs' = [fs EXCEPT ![OutPath] = FileOfText(WrittenText(columns, data))]
    /\ call' = CallRecord("write_data", <<>>, columns, data, "written", <<>>)
    /\ UNCHANGED <<progress_data, emitted, worker, store>>

\* handler.read_data(columns) of the file just written
read_data ==
    /\ call.op = "write_data"
    /\ call.result = "written"
    /\ call' = [call EXCEPT !.op = "read_data", !.result = "ok",
                            !.out = ReadData(fs[OutPath], call.columns)]
    /\ UNCHANGED <<progress_data, emitted, worker, store, fs>>

InitRoundTrip ==
    /\ InitCommon
    /\ fs = [p \in {SrcPath, OutPath} |-> NoFile]
    /\ store = [rows |-> <<>>, initial |-> <<>>, log |-> <<>>]

NextRoundTrip ==
    \/ \E columns \in RoundTripColumns :
          \E data \in SeqsUpTo(RoundTripRows(columns), MaxRows) :
              write_data(columns, data)
    \/ read_data

SpecRoundTrip == InitRoundTrip /\ [][NextRoundTrip]_vars

DistinctNames(columns) ==
    \A i, j \in 1..Len(columns) : columns[i] = columns[j] => i = j

\* Writing rows and reading them back returns every cell as it was written,
\* whatever the value of the cell.
C14_RoundTripAsWritten ==
    call.op = "read_data" => call.out = call.data

\* C14: for every N >= 0, every list of distinct column names and every list
\* of N rows with one cell for every column, write_data followed by read_data
\* on the same path returns N rows in the order written, every cell being the
\* text csv writes for the cell written: a string comes back as it was, a
\* number or a date as its str(), None as the empty string.
C14_RoundTrip ==
    (call.op = "read_data" /\ DistinctNames(call.columns)) =>
        /\ call.result = "ok"
        /\ Len(call.out) = Len(call.data)
        /\ \A k \in 1..Len(call.data) :
              /\ Len(call.out[k]) = Len(call.columns)
              /\ \A j \in 1..Len(call.columns) :
                    /\ call.out[k][j] = StrV(CsvCell(call.data[k][j]))
                    /\ IsStr(call.data[k][j]) => call.out[k][j] = call.data[k][j]

\* two rows of text read back as written, one with a line break in its cell
C14_Witness ==
    /\ call.op = "read_data"
    /\ Len(call.data) = 2
    /\ call.data[1] = <<StrV(<<"l", "\n", "m">>)>>
    /\ call.data[2] = <<StrV(<<>>)>>
    /\ call.out = call.data

(***************************************************************************)
(* SpecConc: two requests to the ingest endpoint, each started on a thread *)
(* of its own whatever the other is doing.  The first transfer moves one   *)
(* row in either direction; the second reads the file for a column the     *)
(* header does not have, so that it ends after its read.                   *)
(***************************************************************************)
ConcFile == [header |-> <<S_price, S_date>>, records |-> <<<<<<"4", "2">>>>>>, extra |-> 0]

ConcTable == <<<<IntV(1)>>>>

ConcRequests(w) ==
    IF w = 1
    THEN { Request("file_to_clickhouse", S_t, <<S_price>>),
           Request("clickhouse_to_file", S_t, <<S_price>>) }
    ELSE { Request("file_to_clickhouse", S_t, <<S_id>>) }

InitConc ==
    /\ InitCommon
    /\ fs = [p \in {SrcPath, OutPath} |-> IF p = SrcPath THEN ConcFile ELSE NoFile]
    /\ store = [rows |-> ConcTable, initial |-> ConcTable, log |-> <<>>]

\* POST /ingest: a thread is started for the request
IngestRequest(w) == \E request \in ConcRequests(w) : ingest(w, request)

NextConc == \E w \in Workers : IngestRequest(w) \/ Step(w)

SpecConc == InitConc /\ [][NextConc]_vars

\* the values a progress event carries
SlotOf(e) ==
    [current |-> e.current, total |-> e.total, status |-> e.status,
     batch_num |-> e.batch_num, total_batches |-> e.total_batches]

Running(w) == worker[w].pc \notin {"idle", "done"}

\* C15: the progress state is one slot for the whole process, and the last
\* writer wins: whichever transfer publishes a progress event, the slot then
\* shows that event, and a transfer that starts resets the slot to idle,
\* whatever the slot showed and whatever other transfer is running.
C15_LastWriterWins ==
    [][/\ (Len(emitted') = Len(emitted) + 1
             /\ Last(emitted').ev = "progress_update") =>
                progress_data' = SlotOf(Last(emitted'))
       /\ (\E w \in Workers : worker[w].pc = "ri_reset" /\ worker'[w].pc # "ri_reset") =>
                progress_data' = IdleProgress
       /\ progress_data' # progress_data =>
                \/ Len(emitted') = Len(emitted) + 1
                \/ \E w \in Workers : worker[w].pc = "ri_reset"]_vars

\* neither transfer has failed, the first is still running and has reported
\* progress, the observed current values have gone down, and the slot shows
\* the completed (100/100) of the second
C15_Witness ==
    /\ \A w \in Workers : worker[w].exc = ""
    /\ Running(1)
    /\ \E i \in 1..Len(Progress(1)) : Progress(1)[i].current > 0
    /\ worker[2].pc = "done"
    /\ progress_data.status = "completed"
    /\ progress_data.current = 100
    /\ \E i \in 1..(Len(emitted) - 1) :
          /\ emitted[i].ev = "progress_update"
          /\ emitted[i + 1].ev = "progress_update"
          /\ emitted[i + 1].current < emitted[i].current

(***************************************************************************)
(* SpecLive: SpecConc with threads that keep running: every call a worker  *)
(* makes returns or raises, so a step a worker can take is taken           *)
(***************************************************************************)
SpecLive == SpecConc /\ \A w \in Workers : WF_vars(Step(w))

\* everything worker w published, in order
Events(w) == SelectSeq(emitted, LAMBDA e : e.w = w)

Terminals(w) ==
    SelectSeq(emitted, LAMBDA e :
        e.w = w /\ e.ev \in {"ingestion_complete", "ingestion_error"})

\* at most one terminal event; it is the last event of the transfer and
\* follows at once the progress event that belongs to it
OneOutcome(w) ==
    /\ Len(Terminals(w)) <= 1
    /\ Len(Terminals(w)) = 1 =>
          /\ worker[w].pc = "done"
          /\ Len(Events(w)) >= 2
          /\ Last(Events(w)) = Terminals(w)[1]
          /\ Last(Events(w)).ev = "ingestion_complete" =>
                /\ Events(w)[Len(Events(w)) - 1] =
                      ProgressEvent(w, 100, 100, "completed", 0, 0)
                /\ Last(Events(w)).count = worker[w].count
          /\ Last(Events(w)).ev = "ingestion_error" =>
                /\ Events(w)[Len(Events(w)) - 1] = ProgressEvent(w, 0, 100, "error", 0, 0)
                /\ Last(Events(w)).message = worker[w].message
                /\ Last(Events(w)).message # ""
    /\ worker[w].pc = "done" => Len(Terminals(w)) = 1

====
